---- MODULE Spec2Model ----
(***************************************************************************)
(* media-organizer: src/main.rs.                                           *)
(*                                                                         *)
(* main() reads the input folder once, then walks the collected entries    *)
(* in order.  For each entry it resolves the file name and the lowercased  *)
(* extension, filters on the extension, asks                               *)
(* determine_subfolder_name_from_metadata for a subfolder name and either  *)
(* logs the intended move (dry run) or creates the subfolder and renames   *)
(* the file.  Every unwrap() of main.rs is a panic point of the model.     *)
(*                                                                         *)
(* The file system is the pair (files, dirs).  The nom_exif library is the *)
(* environment: what it would answer for a file is the file's `meta`       *)
(* record, chosen in Init.  Debug-level log lines are left out.            *)
(***************************************************************************)
EXTENDS Integers, Sequences, FiniteSets, TLC

\* Longest directory listing explored.
MaxEntries == 2

\* Number of files another process may drop into the input folder during a
\* run (only under SpecEnv).
MaxExternal == 1

-----------------------------------------------------------------------------
(* Strings.  A file name is a sequence of one-character strings, so that   *)
(* Path::extension and to_lowercase can be computed on it.                 *)

Upper == <<"A","B","C","D","E","F","G","H","I","J","K","L","M",
           "N","O","P","Q","R","S","T","U","V","W","X","Y","Z">>
Lower == <<"a","b","c","d","e","f","g","h","i","j","k","l","m",
           "n","o","p","q","r","s","t","u","v","w","x","y","z">>

UpperToLower ==
    [c \in {Upper[i] : i \in 1..Len(Upper)} |->
        Lower[CHOOSE i \in 1..Len(Upper) : Upper[i] = c]]

\* char::to_lowercase on the ASCII range
ToLowerChar(c) == IF c \in DOMAIN UpperToLower THEN UpperToLower[c] ELSE c

\* str::to_lowercase
to_lowercase(s) == [i \in 1..Len(s) |-> ToLowerChar(s[i])]

RECURSIVE ToStr(_)
\* the characters of a name as one string
ToStr(s) == IF s = <<>> THEN "" ELSE Head(s) \o ToStr(Tail(s))

\* index of the last "." of a name, 0 if there is none
LastDot(s) ==
    IF \E i \in 1..Len(s) : s[i] = "."
    THEN CHOOSE i \in 1..Len(s) :
            s[i] = "." /\ \A j \in (i+1)..Len(s) : s[j] # "."
    ELSE 0

\* Path::extension: none without a ".", none when the only "." leads the
\* name, otherwise what follows the last "."
HasExtension(s) == LastDot(s) > 1

extension(s) == SubSeq(s, LastDot(s) + 1, Len(s))

\* main.rs:81
MediaExtensions == {"jpg", "jpeg", "png", "mov", "mp4"}

\* main.rs:79, the extension the filter sees
LoweredExtension_CaseSensitive(s) == ToStr(extension(s))

LoweredExtension(s) == ToStr(to_lowercase(extension(s)))

\* main.rs:81
IsMedia(s) == LoweredExtension(s) \in MediaExtensions

-----------------------------------------------------------------------------
(* Metadata values.  A time value is a DateTime<FixedOffset>: an instant   *)
(* (hours since year 0, on a 365-day calendar) and an offset in hours.     *)
(* `wrote` remembers the calendar year the device wrote into the file.     *)

NoValue  == [kind |-> "none", utc |-> 0, off |-> 0, wrote |-> 0]
TextValue == [kind |-> "text", utc |-> 0, off |-> 0, wrote |-> 0]
Absent   == [kind |-> "absent", utc |-> 0, off |-> 0, wrote |-> 0]

\* the time value for local date (year, day of year), hour, offset
TimeValue(y, doy, h, off) ==
    [kind |-> "time", utc |-> ((y * 365 + (doy - 1)) * 24 + h) - off,
     off |-> off, wrote |-> y]

\* DateTime::date_naive().year(): the year of the local date
date_naive_year(v) == (v.utc + v.off) \div (365 * 24)

Digit(d) == <<"0","1","2","3","4","5","6","7","8","9">>[d + 1]

\* format("%Y") for years 0..9999: four digits, zero padded
FormatYear(y) ==
    Digit((y \div 1000) % 10) \o Digit((y \div 100) % 10)
        \o Digit((y \div 10) % 10) \o Digit(y % 10)

\* main.rs:157 and 169-174
YearString(v) == FormatYear(date_naive_year(v))

-----------------------------------------------------------------------------
(* determine_subfolder_name_from_metadata (main.rs:113-180).               *)
(*                                                                         *)
(* A file's meta record is what nom_exif answers for it:                   *)
(*   open   MediaSource::file_path succeeds                                *)
(*   exif   has_exif()          track  has_track()                         *)
(*   parse  MediaParser::parse succeeds                                    *)
(*   tags   the entries ExifIter yields, in order, each [tag, value]       *)
(*   create TrackInfo::get(CreateDate), Absent when there is none          *)
(* The result is Option<String> or a panic: kind is "None", "Some" or      *)
(* "Panic"; warn is the warning logged on the way ("" for none).           *)

Tag(t, v) == [tag |-> t, value |-> v]

Meta(o, e, t, p, tags, c) ==
    [open |-> o, exif |-> e, track |-> t, parse |-> p, tags |-> tags, create |-> c]

\* main.rs:117
NOT_QUALIFIED == "NOT_QUALIFIED"

ReturnNone(w)    == [kind |-> "None", name |-> "", warn |-> w]
ReturnSome(n, w) == [kind |-> "Some", name |-> n, warn |-> w]
Panic            == [kind |-> "Panic", name |-> "", warn |-> ""]
NotCalled        == [kind |-> "NotCalled", name |-> "", warn |-> ""]

\* main.rs:121-126
OpenFailResult ==
    ReturnNone("Couldn't get metadata of the file so skipping it.")

ExifParseFailResult_Skip == ReturnNone("Failed parsing Exif data.")

\* main.rs:132-136
ExifParseFailResult ==
    ReturnSome(NOT_QUALIFIED, "Failed parsing Exif data.")

NoDateTagResult_Unwrap == Panic

\* main.rs:147-153
NoDateTagResult ==
    ReturnSome(NOT_QUALIFIED,
        "Failed reading Exif data. Details: No DateTimeOriginal or CreateDate tag found.")

\* main.rs:161-165
TrackParseFailResult ==
    ReturnSome(NOT_QUALIFIED, "Failed parsing track data.")

\* main.rs:175-179: the warning is logged and control falls through to the
\* final Some(destination_subfolder_name), still holding NOT_QUALIFIED
NoMetadataResult ==
    ReturnSome(NOT_QUALIFIED,
        "No Exif or Track data found so skipping the current file.")

\* main.rs:140-143
IsDateTag(t) == t \in {"DateTimeOriginal", "CreateDate"}

\* a search by field priority: DateTimeOriginal wherever it is, else CreateDate
FindDateEntry_ByPriority(tags) ==
    IF \E i \in 1..Len(tags) : tags[i].tag = "DateTimeOriginal"
    THEN CHOOSE i \in 1..Len(tags) :
            /\ tags[i].tag = "DateTimeOriginal"
            /\ \A j \in 1..(i-1) : tags[j].tag # "DateTimeOriginal"
    ELSE IF \E i \in 1..Len(tags) : tags[i].tag = "CreateDate"
    THEN CHOOSE i \in 1..Len(tags) :
            /\ tags[i].tag = "CreateDate"
            /\ \A j \in 1..(i-1) : tags[j].tag # "CreateDate"
    ELSE 0

\* main.rs:139-144, iter.find: the position of the first entry, in iteration
\* order, whose tag is one of the two date tags; 0 for None
FindDateEntry(tags) ==
    IF \E i \in 1..Len(tags) : IsDateTag(tags[i].tag)
    THEN CHOOSE i \in 1..Len(tags) :
            /\ IsDateTag(tags[i].tag)
            /\ \A j \in 1..(i-1) : ~IsDateTag(tags[j].tag)
    ELSE 0

\* main.rs:155-157 and 167-174: get_value().unwrap() / info.get().unwrap(),
\* then as_time().unwrap(), then the year
YearOrPanic(v) ==
    IF v.kind = "time" THEN ReturnSome(YearString(v), "") ELSE Panic

\* main.rs:129-157
ExifBranch(m) ==
    IF ~m.parse THEN ExifParseFailResult
    ELSE LET p == FindDateEntry(m.tags) IN
         IF p = 0 THEN NoDateTagResult
         ELSE YearOrPanic(m.tags[p].value)

\* main.rs:158-174
TrackBranch(m) ==
    IF ~m.parse THEN TrackParseFailResult
    ELSE YearOrPanic(m.create)

\* main.rs:113-180
determine_subfolder_name_from_metadata(m) ==
    IF ~m.open THEN OpenFailResult
    ELSE IF m.exif THEN ExifBranch(m)
    ELSE IF m.track THEN TrackBranch(m)
    ELSE NoMetadataResult

-----------------------------------------------------------------------------
(* The inputs explored.                                                    *)

T2021     == TimeValue(2021, 166, 10, 0)     \* 2021-06-15T10:00:00
T2019     == TimeValue(2019, 1, 0, 0)        \* 2019-01-01T00:00:00
T2020West == TimeValue(2020, 365, 23, -12)   \* 2020-12-31T23:00-12:00, 2021 in UTC
T2019East == TimeValue(2019, 1, 0, 14)       \* 2019-01-01T00:00+14:00, 2018 in UTC

Unopenable    == Meta(FALSE, FALSE, FALSE, FALSE, <<>>, Absent)
NoContainer   == Meta(TRUE, FALSE, FALSE, FALSE, <<>>, Absent)
ExifCorrupt   == Meta(TRUE, TRUE, FALSE, FALSE, <<>>, Absent)
ExifNoDate    == Meta(TRUE, TRUE, FALSE, TRUE, <<Tag("Make", TextValue)>>, Absent)
ExifOriginal  == Meta(TRUE, TRUE, FALSE, TRUE, <<Tag("DateTimeOriginal", T2021)>>, Absent)
ExifCreate    == Meta(TRUE, TRUE, FALSE, TRUE,
                      <<Tag("Make", TextValue), Tag("CreateDate", T2019)>>, Absent)
ExifOrigFirst == Meta(TRUE, TRUE, FALSE, TRUE,
                      <<Tag("DateTimeOriginal", T2021), Tag("CreateDate", T2019)>>, Absent)
ExifCreateFirst == Meta(TRUE, TRUE, FALSE, TRUE,
                      <<Tag("CreateDate", T2019), Tag("DateTimeOriginal", T2021)>>, Absent)
ExifTextDate  == Meta(TRUE, TRUE, FALSE, TRUE, <<Tag("DateTimeOriginal", TextValue)>>, Absent)
ExifNoValue   == Meta(TRUE, TRUE, FALSE, TRUE, <<Tag("CreateDate", NoValue)>>, Absent)
ExifAndTrack  == Meta(TRUE, TRUE, TRUE, TRUE, <<Tag("DateTimeOriginal", T2020West)>>, T2019)
TrackCorrupt  == Meta(TRUE, FALSE, TRUE, FALSE, <<>>, Absent)
TrackCreate   == Meta(TRUE, FALSE, TRUE, TRUE, <<>>, T2019)
TrackEast     == Meta(TRUE, FALSE, TRUE, TRUE, <<>>, T2019East)
TrackNoDate   == Meta(TRUE, FALSE, TRUE, TRUE, <<>>, Absent)
TrackTextDate == Meta(TRUE, FALSE, TRUE, TRUE, <<>>, TextValue)

File(n, m) == [io |-> TRUE, utf8 |-> TRUE, name |-> n, meta |-> m]

photo_jpg  == <<"p","h","o","t","o",".","j","p","g">>
IMG_JPEG   == <<"I","M","G",".","J","P","E","G">>
broken_png == <<"b","r","o","k","e","n",".","p","n","g">>
clip_mov   == <<"c","l","i","p",".","m","o","v">>
vid_Mp4    == <<"v","i","d",".","M","p","4">>
readme_txt == <<"r","e","a","d","m","e",".","t","x","t">>
subdir     == <<"2","0","2","1">>
dot_hidden == <<".","j","p","g">>

\* an entry whose DirEntry is an io error (main.rs:70), and one whose name
\* is not valid UTF-8 (main.rs:71; "?" stands for the invalid bytes)
IoErrorEntry == [io |-> FALSE, utf8 |-> TRUE, name |-> <<"?">>, meta |-> Unopenable]
NonUtf8Entry == [io |-> TRUE, utf8 |-> FALSE,
                 name |-> <<"?",".","j","p","g">>, meta |-> ExifOriginal]

Samples ==
    {File(photo_jpg, m) : m \in {Unopenable, NoContainer, ExifCorrupt, ExifNoDate,
                                 ExifOriginal, ExifCreate, ExifOrigFirst,
                                 ExifCreateFirst, ExifTextDate, ExifNoValue,
                                 ExifAndTrack}}
    \cup {File(clip_mov, m) : m \in {Unopenable, NoContainer, TrackCorrupt,
                                     TrackCreate, TrackEast, TrackNoDate,
                                     TrackTextDate}}
    \cup {File(IMG_JPEG, m) : m \in {ExifOriginal, ExifCreateFirst, ExifNoDate}}
    \cup {File(broken_png, m) : m \in {ExifCorrupt, NoContainer, ExifAndTrack}}
    \cup {File(vid_Mp4, m) : m \in {TrackCreate, TrackNoDate, Unopenable}}
    \cup {File(n, ExifOriginal) : n \in {readme_txt, subdir, dot_hidden}}
    \cup {IoErrorEntry, NonUtf8Entry}

\* directory listings: at most MaxEntries entries, no name twice
Listings ==
    {l \in UNION {[1..n -> Samples] : n \in 0..MaxEntries} :
        \A i, j \in 1..Len(l) : i # j => l[i].name # l[j].name}

\* -i and -o
input_folder  == "in"
output_folder == "out"

\* the path read_dir gives an entry
InPath(n) == input_folder \o "/" \o ToStr(n)

\* main.rs:91-96
NewFilePath(sub, n) == output_folder \o "/" \o sub \o "/" \o ToStr(n)

\* main.rs:107, new_file_path.parent()
ParentOf(sub) == output_folder \o "/" \o sub

FileAt(p, i) == [path |-> p, id |-> i]

InputFiles(l) == {FileAt(InPath(l[i].name), InPath(l[i].name)) :
                    i \in {j \in 1..Len(l) : l[j].io}}

\* an output tree that already holds out/2021/photo.jpg
OldFiles == {FileAt(NewFilePath("2021", photo_jpg), "old")}
OldDirs  == {output_folder, ParentOf("2021")}

-----------------------------------------------------------------------------
(* State.                                                                  *)

VARIABLES
    dry_run,            \* -d
    readable,           \* fs::read_dir(input_folder) would succeed
    listing,            \* the entries of the input folder, in read_dir order
    files,              \* the regular files: {[path, id]}
    dirs,               \* the directories
    folder_collection,  \* main.rs:66
    amount_of_files,    \* main.rs:67
    index,              \* entries of folder_collection already consumed
    pc,                 \* "start", "loop", "done", "exited", "panicked"
    exit_status,        \* -1 while running; 0, 1, or 101 after a panic
    stdout, stderr,     \* the lines printed
    trace,              \* per consumed entry: [idx, state, call, dest]
    fatalAt,            \* position of the entry a panic happened at, 0 for none
    files0, dirs0,      \* files and dirs at start
    external            \* files dropped into the input folder by others

vars == <<dry_run, readable, listing, files, dirs, folder_collection,
          amount_of_files, index, pc, exit_status, stdout, stderr, trace,
          fatalAt, files0, dirs0, external>>

args == <<dry_run, readable>>
ghost == <<files0, dirs0>>

Init ==
    /\ dry_run \in BOOLEAN
    /\ readable \in BOOLEAN
    /\ listing \in Listings
    /\ \E populated \in BOOLEAN :
        /\ files = InputFiles(listing) \cup (IF populated THEN OldFiles ELSE {})
        /\ dirs = {input_folder} \cup (IF populated THEN OldDirs ELSE {})
    /\ folder_collection = <<>>
    /\ amount_of_files = 0
    /\ index = 0
    /\ pc = "start"
    /\ exit_status = -1
    /\ stdout = <<>>
    /\ stderr = <<>>
    /\ trace = <<>>
    /\ fatalAt = 0
    /\ files0 = files
    /\ dirs0 = dirs
    /\ external = 0

-----------------------------------------------------------------------------
(* Logger (main.rs:31-47); the glyphs are left out.                        *)

info(message)    == "INFO: " \o message
warning(message) == "WARNING: " \o message
error(message)   == "ERROR: " \o message \o "."

\* main.rs:73-76
ProcessingLine(i) ==
    info("Processing file " \o ToString(i + 1) \o " of "
            \o ToString(amount_of_files))

\* main.rs:101-105
WouldMoveLine(n, dest) == info("Would move " \o ToStr(n) \o " to " \o dest)

WithWarning(out, w) == IF w = "" THEN out ELSE Append(out, warning(w))

-----------------------------------------------------------------------------
(* File system calls.                                                      *)

\* fs::create_dir_all(output_folder/sub): the directory and its ancestors
create_dir_all(d, sub) == d \cup {output_folder, ParentOf(sub)}

rename_Copy(f, from, to) ==
    {x \in f : x.path # to}
        \cup {FileAt(to, x.id) : x \in {y \in f : y.path = from}}

\* fs::rename(from, to): the file leaves `from` and replaces what was at `to`
rename(f, from, to) ==
    {x \in f : x.path # to /\ x.path # from}
        \cup {FileAt(to, x.id) : x \in {y \in f : y.path = from}}

-----------------------------------------------------------------------------
(* main (main.rs:50-111).                                                  *)

\* main.rs:56-62: read_dir fails, the error is logged and the process exits 1
ReadDirFails ==
    /\ pc = "start"
    /\ ~readable
    /\ stderr' = Append(stderr, error("Error while reading input directory"))
    /\ exit_status' = 1
    /\ pc' = "exited"
    /\ UNCHANGED <<args, listing, files, dirs, folder_collection, amount_of_files,
                   index, stdout, trace, fatalAt, ghost, external>>

\* main.rs:56-67: the folder is read and collected once
ReadDir ==
    /\ pc = "start"
    /\ readable
    /\ stdout' = Append(stdout, info("Iterating through files in the folder..."))
    /\ folder_collection' = listing
    /\ amount_of_files' = Len(listing)
    /\ index' = 0
    /\ pc' = "loop"
    /\ UNCHANGED <<args, listing, files, dirs, exit_status, stderr, trace,
                   fatalAt, ghost, external>>

Collected_Live == listing

\* main.rs:69: what the for loop iterates over
Collected == folder_collection

InLoop == pc = "loop" /\ index < Len(Collected)

Cur == Collected[index + 1]

\* main.rs:70-71: file.unwrap(), file_name().unwrap().to_str().unwrap()
NameUsable(e) == e.io /\ e.utf8

ExtensionUsable_OrEmpty(e) == TRUE

\* main.rs:79: extension().unwrap().to_str().unwrap()
ExtensionUsable(e) == HasExtension(e.name)

Rec(state, call, dest) ==
    [idx |-> index + 1, state |-> state, call |-> call, dest |-> dest]

\* a panic unwinds main: nothing after it runs, the exit status is 101
Panics(out, call) ==
    /\ pc' = "panicked"
    /\ exit_status' = 101
    /\ fatalAt' = index + 1
    /\ stdout' = out
    /\ trace' = Append(trace, Rec("fatal", call, ""))
    /\ UNCHANGED <<args, listing, folder_collection, amount_of_files, index,
                   stderr, ghost, external>>

\* `continue`, or the end of the loop body
Continues(out, state, call, dest) ==
    /\ index' = index + 1
    /\ stdout' = out
    /\ trace' = Append(trace, Rec(state, call, dest))
    /\ UNCHANGED <<args, listing, folder_collection, amount_of_files, pc,
                   exit_status, stderr, fatalAt, ghost, external>>

\* main.rs:70-71: the entry or its name cannot be unwrapped
NameUnusable ==
    /\ InLoop
    /\ ~NameUsable(Cur)
    /\ Panics(stdout, NotCalled)
    /\ UNCHANGED <<files, dirs>>

\* main.rs:73-79: the entry has no extension
ExtensionMissing ==
    /\ InLoop
    /\ NameUsable(Cur)
    /\ ~ExtensionUsable(Cur)
    /\ Panics(Append(stdout, ProcessingLine(index)), NotCalled)
    /\ UNCHANGED <<files, dirs>>

\* main.rs:81-83
SkipExtension ==
    /\ InLoop
    /\ NameUsable(Cur)
    /\ ExtensionUsable(Cur)
    /\ ~IsMedia(Cur.name)
    /\ Continues(Append(stdout, ProcessingLine(index)), "skipped", NotCalled, "")
    /\ UNCHANGED <<files, dirs>>

Classifiable == InLoop /\ NameUsable(Cur) /\ ExtensionUsable(Cur) /\ IsMedia(Cur.name)

Call == determine_subfolder_name_from_metadata(Cur.meta)

Logged == WithWarning(Append(stdout, ProcessingLine(index)), Call.warn)

\* main.rs:85-89, None => continue
ClassifierSkips ==
    /\ Classifiable
    /\ Call.kind = "None"
    /\ Continues(Logged, "skipped", Call, "")
    /\ UNCHANGED <<files, dirs>>

\* main.rs:155-157, 167-171: an unwrap() inside the classifier panics
ClassifierPanics ==
    /\ Classifiable
    /\ Call.kind = "Panic"
    /\ Panics(Logged, Call)
    /\ UNCHANGED <<files, dirs>>

Dest == NewFilePath(Call.name, Cur.name)

DryRun_Moves ==
    /\ Classifiable
    /\ Call.kind = "Some"
    /\ dry_run
    /\ dirs' = create_dir_all(dirs, Call.name)
    /\ files' = rename(files, InPath(Cur.name), Dest)
    /\ Continues(Logged, "would-move", Call, Dest)

\* main.rs:99-105
DryRun ==
    /\ Classifiable
    /\ Call.kind = "Some"
    /\ dry_run
    /\ Continues(Append(Append(Logged,
                    info("Dry run... (Skipping moving the file.)")),
                    WouldMoveLine(Cur.name, Dest)),
                 "would-move", Call, Dest)
    /\ UNCHANGED <<files, dirs>>

\* main.rs:106-108, both calls succeed
MoveFile ==
    /\ Classifiable
    /\ Call.kind = "Some"
    /\ ~dry_run
    /\ dirs' = create_dir_all(dirs, Call.name)
    /\ files' = rename(files, InPath(Cur.name), Dest)
    /\ Continues(Logged, "moved", Call, Dest)

MoveFails_Continue ==
    /\ Classifiable
    /\ Call.kind = "Some"
    /\ ~dry_run
    /\ fatalAt' = index + 1
    /\ index' = index + 1
    /\ stdout' = Logged
    /\ trace' = Append(trace, Rec("fatal", Call, Dest))
    /\ UNCHANGED <<args, listing, folder_collection, amount_of_files, pc,
                   exit_status, stderr, ghost, external, files, dirs>>

\* main.rs:107-108: create_dir_all fails (having made none or some of the
\* ancestors), or it succeeds and rename fails; the unwrap() panics
MoveFails ==
    /\ Classifiable
    /\ Call.kind = "Some"
    /\ ~dry_run
    /\ dirs' \in {dirs, dirs \cup {output_folder}, create_dir_all(dirs, Call.name)}
    /\ UNCHANGED files
    /\ Panics(Logged, Call)

\* main.rs:110-111: the loop is over, main returns
Finish ==
    /\ pc = "loop"
    /\ index >= Len(Collected)
    /\ pc' = "done"
    /\ exit_status' = 0
    /\ UNCHANGED <<args, listing, files, dirs, folder_collection, amount_of_files,
                   index, stdout, stderr, trace, fatalAt, ghost, external>>

LateName == <<"l","a","t","e", Digit(external + 1), ".","j","p","g">>

\* another process drops a file into the input folder while main iterates
ExternalCreate ==
    /\ pc = "loop"
    /\ external < MaxExternal
    /\ external' = external + 1
    /\ listing' = Append(listing, File(LateName, ExifOriginal))
    /\ files' = files \cup {FileAt(InPath(LateName), InPath(LateName))}
    /\ UNCHANGED <<args, dirs, folder_collection, amount_of_files, index, pc,
                   exit_status, stdout, stderr, trace, fatalAt, ghost>>

Next ==
    \/ ReadDirFails
    \/ ReadDir
    \/ NameUnusable
    \/ ExtensionMissing
    \/ SkipExtension
    \/ ClassifierSkips
    \/ ClassifierPanics
    \/ DryRun
    \/ MoveFile
    \/ MoveFails
    \/ Finish

Spec == Init /\ [][Next]_vars

NextEnv == Next \/ ExternalCreate

\* the same program with other processes writing to the input folder
SpecEnv == Init /\ [][NextEnv]_vars

-----------------------------------------------------------------------------
(* Vocabulary of the properties.                                           *)

Consumed == 1..Len(trace)

\* the k-th entry of the snapshot, its identity and where it started
Entry(k) == folder_collection[k]
Origin(k) == InPath(Entry(k).name)

\* the paths at which the file that started at path i is found now
Where(i) == {x.path : x \in {y \in files : y.id = i}}

InPlace(k) == Where(Origin(k)) = {Origin(k)}

\* {output_folder}/{sub}/{original file name}
Target(k, sub) == "out/" \o sub \o "/" \o ToStr(Entry(k).name)

Called(k) == trace[k].call.kind # "NotCalled"

MediaExtensionChars ==
    {<<"j","p","g">>, <<"j","p","e","g">>, <<"p","n","g">>,
     <<"m","o","v">>, <<"m","p","4">>}

\* the entry has a name and an extension, and the extension equals one of the
\* five media extensions up to letter case
Recognized(e) ==
    /\ e.io /\ e.utf8 /\ HasExtension(e.name)
    /\ LET ext == extension(e.name) IN
        \E x \in MediaExtensionChars :
          /\ Len(x) = Len(ext)
          /\ \A i \in 1..Len(x) : ToLowerChar(ext[i]) = x[i]

IsFallback(c) == c.kind = "Some" /\ c.name = "NOT_QUALIFIED"

DateTagPositions(m) ==
    {i \in 1..Len(m.tags) : m.tags[i].tag \in {"DateTimeOriginal", "CreateDate"}}

\* the create_dir_all / rename of main.rs:107-108 failed at entry k
MoveFailedAt(k) ==
    trace[k].state = "fatal" /\ trace[k].call.kind = "Some" /\ ~dry_run

-----------------------------------------------------------------------------
(* C1 *)

NoContainerAt(k) ==
    Recognized(Entry(k)) /\ Entry(k).meta.open
        /\ ~Entry(k).meta.exif /\ ~Entry(k).meta.track

\* C1: a file with a recognized extension whose media source opens but has
\* neither EXIF nor track metadata gets "no classification" and is skipped:
\* it stays in the input folder and is not placed under the output folder.
C1_NoContainerIsSkipped ==
    \A k \in Consumed :
        NoContainerAt(k) =>
            /\ trace[k].call.kind = "None"
            /\ trace[k].state = "skipped"
            /\ InPlace(k)

-----------------------------------------------------------------------------
(* C2 *)

ExifAt(k) == Recognized(Entry(k)) /\ Entry(k).meta.open /\ Entry(k).meta.exif

TrackAt(k) ==
    Recognized(Entry(k)) /\ Entry(k).meta.open
        /\ ~Entry(k).meta.exif /\ Entry(k).meta.track

ParseFailsAt(k) == (ExifAt(k) \/ TrackAt(k)) /\ ~Entry(k).meta.parse

ExifNoDateTagAt(k) ==
    ExifAt(k) /\ Entry(k).meta.parse /\ DateTagPositions(Entry(k).meta) = {}

\* the first date tag found carries no value, or one that is no time
ExifDateUnusableAt(k) ==
    /\ ExifAt(k) /\ Entry(k).meta.parse
    /\ \E p \in DateTagPositions(Entry(k).meta) :
          /\ \A q \in DateTagPositions(Entry(k).meta) : p <= q
          /\ Entry(k).meta.tags[p].value.kind # "time"

\* the track creation date is absent or no time
TrackDateUnusableAt(k) ==
    TrackAt(k) /\ Entry(k).meta.parse /\ Entry(k).meta.create.kind # "time"

\* the classifier answered NOT_QUALIFIED for entry k and, dry-run off, the
\* file is at out/NOT_QUALIFIED/name unless the move itself failed
FallbackPlacedAt(k) ==
    /\ IsFallback(trace[k].call)
    /\ ~dry_run /\ ~MoveFailedAt(k) =>
          /\ trace[k].state = "moved"
          /\ Where(Origin(k)) = {Target(k, "NOT_QUALIFIED")}

\* C2 as claimed: every file with a detected container whose metadata is
\* unparseable or lacks a usable date (parse failure, no date tag, date value
\* not convertible to a time, track creation date absent) is classified
\* NOT_QUALIFIED and, dry-run off, moved to out/NOT_QUALIFIED/name.
C2_AsClaimed ==
    \A k \in Consumed :
        (ParseFailsAt(k) \/ ExifNoDateTagAt(k) \/ ExifDateUnusableAt(k)
            \/ TrackDateUnusableAt(k)) => FallbackPlacedAt(k)

\* C2 amended: a parse failure (EXIF or track) or an EXIF tag set without a
\* date tag is classified NOT_QUALIFIED and, dry-run off, moved to
\* out/NOT_QUALIFIED/name unless create_dir_all or rename fails; a date value
\* that is missing or no time, or an absent track creation date, panics.
C2_FallbackPlacement ==
    \A k \in Consumed :
        /\ (ParseFailsAt(k) \/ ExifNoDateTagAt(k)) => FallbackPlacedAt(k)
        /\ (ExifDateUnusableAt(k) \/ TrackDateUnusableAt(k)) =>
              /\ trace[k].call.kind = "Panic"
              /\ trace[k].state = "fatal"
              /\ InPlace(k)

C2_Witness ==
    /\ ~dry_run
    /\ \E k \in Consumed : ParseFailsAt(k) /\ trace[k].state = "moved"
    /\ \E k \in Consumed : TrackDateUnusableAt(k) /\ trace[k].state = "fatal"

-----------------------------------------------------------------------------
(* C3 *)

OpenFailsAt(k) == Recognized(Entry(k)) /\ ~Entry(k).meta.open

TrackNoDateTagAt(k) ==
    TrackAt(k) /\ Entry(k).meta.parse /\ Entry(k).meta.create.kind = "absent"

\* entry k ended as a skip or a fallback placement and the run went on; the
\* only abort at k is a failed create_dir_all / rename
NotAbortedAt(k) ==
    /\ \/ trace[k].call.kind = "None" /\ trace[k].state = "skipped"
       \/ /\ IsFallback(trace[k].call)
          /\ trace[k].state \in {"moved", "would-move"} \/ MoveFailedAt(k)
    /\ ~MoveFailedAt(k) => fatalAt # k /\ index >= k

\* C3 as claimed: an unopenable source, a parse failure, or an absent date
\* tag (EXIF or track branch) never aborts the run.
C3_AsClaimed ==
    \A k \in Consumed :
        (OpenFailsAt(k) \/ ParseFailsAt(k) \/ ExifNoDateTagAt(k)
            \/ TrackNoDateTagAt(k)) => NotAbortedAt(k)

\* C3 amended: an unopenable source, a parse failure (either branch) or an
\* EXIF tag set without a date tag never aborts the run: the file is skipped
\* or placed in the fallback bucket and the walker goes on; an absent track
\* creation date panics at entry k and ends the run.
C3_RecoverableNeverAborts ==
    \A k \in Consumed :
        /\ (OpenFailsAt(k) \/ ParseFailsAt(k) \/ ExifNoDateTagAt(k))
              => NotAbortedAt(k)
        /\ TrackNoDateTagAt(k) =>
              trace[k].call.kind = "Panic" /\ fatalAt = k /\ pc = "panicked"

C3_Witness ==
    /\ pc = "done"
    /\ Len(trace) = 2
    /\ ExifNoDateTagAt(1) /\ trace[1].state = "would-move"
    /\ OpenFailsAt(2) /\ trace[2].state = "skipped"

-----------------------------------------------------------------------------
(* C4 *)

\* the decision main takes for entry k once the classifier has answered:
\* a skip for None, otherwise the destination out/{answer}/{name}
DecisionAt(k) ==
    /\ trace[k].call.kind \in {"None", "NotCalled"} =>
          trace[k].state \in {"skipped", "fatal"} /\ trace[k].dest = ""
    /\ trace[k].call.kind = "Some" =>
          trace[k].dest = Target(k, trace[k].call.name)

\* C4: with the dry-run flag set the run changes nothing in the file system
\* (files and directories are as at start, in every state), while each entry
\* gets the decision a real run takes: a skip, or the destination
\* out/{classifier's answer}/{name}, which is then logged instead of moved to.
C4_DryRunTouchesNothing ==
    dry_run =>
        /\ files = files0
        /\ dirs = dirs0
        /\ \A k \in Consumed :
              /\ DecisionAt(k)
              /\ trace[k].state # "moved"
              /\ trace[k].call.kind = "Some" =>
                    /\ trace[k].state = "would-move"
                    /\ \E i \in 1..Len(stdout) :
                          stdout[i] = "INFO: Would move " \o ToStr(Entry(k).name)
                                          \o " to " \o trace[k].dest

C4_Witness ==
    /\ dry_run /\ pc = "done" /\ Len(trace) = 2
    /\ trace[1].state = "would-move" /\ trace[1].call.name = "2021"
    /\ trace[2].state = "would-move" /\ IsFallback(trace[2].call)

-----------------------------------------------------------------------------
(* C5 *)

\* C5: the classifier is invoked for an entry exactly when its extension,
\* compared without regard to letter case, is one of jpg, jpeg, png, mov,
\* mp4; every other entry is left in place, unclassified and unmoved.
C5_ClassifiedIffMediaExtension ==
    \A k \in Consumed :
        /\ Called(k) <=> Recognized(Entry(k))
        /\ ~Recognized(Entry(k)) /\ Entry(k).io =>
              InPlace(k) /\ trace[k].state \in {"skipped", "fatal"}

C5_Witness ==
    /\ Len(trace) = 2
    /\ Entry(1).name = readme_txt /\ trace[1].state = "skipped" /\ ~Called(1)
    /\ Entry(2).name = IMG_JPEG /\ Called(2) /\ trace[2].state = "moved"

-----------------------------------------------------------------------------
(* C6 *)

\* the strings of four decimal digits
YearStrings == {FormatYear(y) : y \in 0..9999}

FourDigits(str) == str \in YearStrings

\* C6: in a real run every moved file is found at exactly one path,
\* out/{classifier's answer}/{name}, the answer being a four-digit year or
\* NOT_QUALIFIED, and no longer in the input folder; every skipped file is
\* found at its input path only.
C6_MovedExactlyOnce ==
    ~dry_run =>
        \A k \in Consumed :
            /\ trace[k].state = "moved" =>
                  /\ trace[k].call.kind = "Some"
                  /\ Where(Origin(k)) = {Target(k, trace[k].call.name)}
                  /\ Origin(k) \notin {x.path : x \in files}
                  /\ trace[k].call.name = "NOT_QUALIFIED"
                        \/ FourDigits(trace[k].call.name)
            /\ trace[k].state = "skipped" => InPlace(k)
            /\ trace[k].state \notin {"moved", "skipped"} => trace[k].state = "fatal"

C6_Witness ==
    /\ ~dry_run /\ pc = "done" /\ Len(trace) = 2
    /\ trace[1].state = "moved" /\ trace[1].dest = "out/2021/photo.jpg"
    /\ FileAt("out/2021/photo.jpg", "old") \in files0
    /\ trace[2].state = "skipped"

-----------------------------------------------------------------------------
(* C7 *)

\* C7: once a fatal condition has occurred at position k, nothing more runs:
\* the process is in its panicked state with no step left to take, every
\* entry after k is still at its input path, and every earlier entry that was
\* moved is still at its destination.
C7_FatalStopsTheRun ==
    fatalAt # 0 =>
        /\ pc = "panicked"
        /\ exit_status # 0
        /\ ~ENABLED Next
        /\ Len(trace) = fatalAt /\ trace[fatalAt].state = "fatal"
        /\ \A j \in (fatalAt + 1)..Len(folder_collection) :
              Entry(j).io => InPlace(j)
        /\ \A j \in 1..(fatalAt - 1) :
              trace[j].state = "moved" =>
                  Where(Origin(j)) = {Target(j, trace[j].call.name)}

C7_Witness ==
    /\ fatalAt = 2 /\ Len(folder_collection) = 2
    /\ trace[1].state = "moved"
    /\ MoveFailedAt(2)
    /\ ParentOf(trace[2].call.name) \in dirs \ dirs0

-----------------------------------------------------------------------------
(* C8 *)

PositionsOf(m, t) == {i \in 1..Len(m.tags) : m.tags[i].tag = t}

Least(S) == CHOOSE i \in S : \A j \in S : i <= j

\* the tag a search by field priority selects
PriorityTag(m) ==
    IF PositionsOf(m, "DateTimeOriginal") # {}
    THEN m.tags[Least(PositionsOf(m, "DateTimeOriginal"))]
    ELSE m.tags[Least(PositionsOf(m, "CreateDate"))]

YearText(v) == FormatYear(v.wrote)

\* C8 as claimed: DateTimeOriginal is used whenever present, CreateDate only
\* when there is no DateTimeOriginal, whatever the order of the two tags;
\* with neither, the fallback label.
C8_AsClaimed ==
    \A k \in Consumed :
        ExifAt(k) /\ Entry(k).meta.parse =>
            IF DateTagPositions(Entry(k).meta) = {}
            THEN IsFallback(trace[k].call)
            ELSE PriorityTag(Entry(k).meta).value.kind = "time" =>
                    /\ trace[k].call.kind = "Some"
                    /\ trace[k].call.name = YearText(PriorityTag(Entry(k).meta).value)

\* C8 amended: the date used is that of the first tag, in the order of the
\* decoded tag set, that is DateTimeOriginal or CreateDate, so CreateDate is
\* used when it precedes DateTimeOriginal; with neither, the fallback label;
\* a first date tag whose value is missing or no time panics.
C8_FirstDateTagInOrder ==
    \A k \in Consumed :
        ExifAt(k) /\ Entry(k).meta.parse =>
            IF DateTagPositions(Entry(k).meta) = {}
            THEN IsFallback(trace[k].call)
            ELSE LET v == Entry(k).meta.tags[Least(DateTagPositions(Entry(k).meta))].value
                 IN  IF v.kind = "time"
                     THEN trace[k].call.kind = "Some"
                            /\ trace[k].call.name = YearText(v)
                     ELSE trace[k].call.kind = "Panic"

C8_Witness ==
    /\ Len(trace) = 2
    /\ Entry(1).meta = ExifCreateFirst /\ trace[1].call.name = "2019"
    /\ Entry(2).meta = ExifOrigFirst /\ trace[2].call.name = "2021"

-----------------------------------------------------------------------------
(* C9 *)

\* C9: an entry without a usable file name or without an extension ends the
\* run with a panic at that entry, before it is filtered or classified; it is
\* not skipped like an entry with an unrecognized extension.
C9_NoExtensionIsFatal ==
    \A k \in Consumed :
        ~(Entry(k).io /\ Entry(k).utf8 /\ HasExtension(Entry(k).name)) =>
            /\ trace[k].state = "fatal"
            /\ ~Called(k)
            /\ fatalAt = k /\ pc = "panicked" /\ exit_status = 101
            /\ Entry(k).io => InPlace(k)

C9_Witness ==
    /\ Len(trace) = 2
    /\ Entry(1).name = readme_txt /\ trace[1].state = "skipped"
    /\ Entry(2).name = subdir /\ trace[2].state = "fatal"

-----------------------------------------------------------------------------
(* C10 *)

\* the number of entries the input folder held when it was read
SnapshotSize == Len(listing) - external

Terminated == pc \in {"done", "exited", "panicked"}

\* what holds of the work list in every state
C10_State ==
    /\ pc # "start" /\ readable =>
          /\ amount_of_files = SnapshotSize
          /\ folder_collection = SubSeq(listing, 1, SnapshotSize)
          /\ index <= amount_of_files
          /\ Len(trace) = index + (IF fatalAt # 0 THEN 1 ELSE 0)
          /\ \A k \in Consumed : trace[k].idx = k
    /\ pc = "done" =>
          /\ exit_status = 0 /\ fatalAt = 0
          /\ Len(trace) = SnapshotSize
          /\ \A k \in Consumed :
                /\ trace[k].state \in {"skipped", "moved", "would-move"}
                /\ trace[k].state = "skipped" => InPlace(k)
                /\ trace[k].state = "would-move" => InPlace(k)
                /\ trace[k].state = "moved" => ~InPlace(k)
          /\ \A k \in Consumed :
                \E i \in 1..Len(stdout) :
                    stdout[i] = "INFO: Processing file " \o ToString(k) \o " of "
                                    \o ToString(SnapshotSize)

\* a step of the loop consumes exactly the next entry, or ends the run
C10_Step ==
    pc = "loop" =>
        \/ pc' = "loop" /\ index' = index + 1 /\ index < amount_of_files
        \/ pc' = "panicked" /\ index' = index /\ index < amount_of_files
        \/ pc' = "done" /\ index' = index /\ index = amount_of_files
        \/ pc' = "loop" /\ index' = index /\ external' = external + 1

\* C10: the walker consumes the entries of the snapshot one by one in
\* enumeration order, each once, every step of the loop taking the next
\* entry or ending the run; entries created later are not in the work list;
\* a run without a fatal condition ends with every one of the M entries
\* skipped (untouched) or moved / would-move, and exit status 0.
C10_Sequential == []C10_State /\ [][C10_Step]_vars

C10_Witness ==
    /\ pc = "done" /\ external = 1 /\ SnapshotSize = 2
    /\ trace[1].state = "skipped" /\ trace[2].state = "moved"

====
